---- MODULE Spec2Model ----
(***************************************************************************)
(* A model of package requester (github.com/syndio/apir): the API registry *)
(* of a Client (MustAddAPI), the request builder (NewRequest), the         *)
(* executor (Execute, decodeJSON, decodeFile) and the constructor          *)
(* (NewClient) with its options.                                           *)
(*                                                                         *)
(* Strings are sequences of one-character strings.  In URLs "a" stands for *)
(* an ordinary byte, "/" for the slash and "^" for an ASCII control byte,  *)
(* which net/url refuses to parse.                                         *)
(***************************************************************************)
EXTENDS Integers, Sequences, FiniteSets, TLC

VARIABLES
    name,      \* Client.name
    apis,      \* Client.apis: map[string]*API, a function on the registered names
    req,       \* the *Request the last NewRequest returned (NoReq: nil)
    ret,       \* the last call: its arguments and what it returned
    pc,        \* SpecRace: the position of each goroutine in its call
    local,     \* SpecRace: the arguments and locals of each goroutine
    writers,   \* SpecRace: goroutines inside an assignment to the map c.apis
    readers,   \* SpecRace: goroutines inside a read access of the map c.apis
    clients,   \* SpecClients: the Clients that NewClient has built, in order
    httpClients \* SpecClients: the *http.Client values of the process, by identity

cliVars == <<name, apis>>
callVars == <<req, ret>>
thrVars == <<pc, local, writers, readers>>
httpVars == <<clients, httpClients>>
vars == <<name, apis, req, ret, pc, local, writers, readers, clients, httpClients>>

----------------------------------------------------------------------------
(* Bounds *)

\* longest base URL and longest path of SpecCompose
MaxStr == 3
\* longest response body
MaxBody == 3
\* number of goroutines of SpecRace
MaxThreads == 2
\* number of Clients that SpecClients builds
MaxClients == 2

----------------------------------------------------------------------------
(* Strings *)

RECURSIVE SeqsUpTo(_, _)
SeqsUpTo(S, n) ==
    IF n = 0 THEN {<<>>}
    ELSE LET shorter == SeqsUpTo(S, n - 1)
         IN  shorter \cup {Append(s, x) : s \in {t \in shorter : Len(t) = n - 1}, x \in S}

URLChars == {"a", "/", "^"}
Slash == {"/"}

\* TrimRight as strings.TrimSuffix: one trailing byte removed at most
TrimRightOnce(s, cutset) ==
    IF s # <<>> /\ s[Len(s)] \in cutset THEN SubSeq(s, 1, Len(s) - 1) ELSE s

\* strings.TrimRight(s, cutset): every trailing byte of the cutset is removed
RECURSIVE TrimRight(_, _)
TrimRight(s, cutset) ==
    IF s # <<>> /\ s[Len(s)] \in cutset
    THEN TrimRight(SubSeq(s, 1, Len(s) - 1), cutset)
    ELSE s

\* strings.TrimLeft(s, cutset): every leading byte of the cutset is removed
RECURSIVE TrimLeft(_, _)
TrimLeft(s, cutset) ==
    IF s # <<>> /\ s[1] \in cutset
    THEN TrimLeft(SubSeq(s, 2, Len(s)), cutset)
    ELSE s

\* the composition leaving the base URL as it is when the path is empty
composeURLBare(base, path) ==
    IF path = <<>> THEN base
    ELSE TrimRight(base, Slash) \o <<"/">> \o TrimLeft(path, Slash)

\* fmt.Sprintf("%s/%s", strings.TrimRight(api.URL(), "/"), strings.TrimLeft(url, "/"))
composeURL(base, path) == TrimRight(base, Slash) \o <<"/">> \o TrimLeft(path, Slash)

----------------------------------------------------------------------------
(* Content types and APIs *)

ApplicationJSON == "application/json"
TextCSV == "text/csv"
\* a content type for which Execute has no codec
TextXML == "text/xml"

ContentTypes == {"", ApplicationJSON, TextCSV, TextXML}

\* An APIOption list is a sequence of content types: the element ct stands for
\* WithContentType(ct).

\* WithContentType(ct)(api)
WithContentType(ct, api) == [api EXCEPT !.contentType = ct]

RECURSIVE ApplyAPIOptions(_, _)
ApplyAPIOptions(api, options) ==
    IF options = <<>> THEN api
    ELSE ApplyAPIOptions(WithContentType(Head(options), api), Tail(options))

\* MustAddAPI without the default for a content type left empty
NewAPINoDefault(discoverer, options) ==
    ApplyAPIOptions([Discoverer |-> discoverer, contentType |-> ""], options)

\* the *API that MustAddAPI stores: the options applied, then the default
NewAPI(discoverer, options) ==
    LET api == ApplyAPIOptions([Discoverer |-> discoverer, contentType |-> ""], options)
    IN  IF api.contentType = "" THEN [api EXCEPT !.contentType = ApplicationJSON] ELSE api

----------------------------------------------------------------------------
(* Client.MustAddAPI *)

\* MustAddAPI without the check of c.apis[name]: it overwrites the entry
MustAddAPIOverwrite(n, discoverer, options) ==
    /\ apis' = [k \in DOMAIN apis \cup {n} |->
                   IF k = n THEN NewAPI(discoverer, options) ELSE apis[k]]
    /\ ret' = [op |-> "MustAddAPI", name |-> n, discoverer |-> discoverer,
               options |-> options, panicked |-> FALSE]
    /\ UNCHANGED <<httpVars, name, req, thrVars>>

MustAddAPI(n, discoverer, options) ==
    /\ IF n \in DOMAIN apis
       THEN \* panic(fmt.Sprintf("api %q already initialized", name))
            /\ apis' = apis
            /\ ret' = [op |-> "MustAddAPI", name |-> n, discoverer |-> discoverer,
                       options |-> options, panicked |-> TRUE]
       ELSE /\ apis' = [k \in DOMAIN apis \cup {n} |->
                           IF k = n THEN NewAPI(discoverer, options) ELSE apis[k]]
            /\ ret' = [op |-> "MustAddAPI", name |-> n, discoverer |-> discoverer,
                       options |-> options, panicked |-> FALSE]
    /\ UNCHANGED <<httpVars, name, req, thrVars>>

----------------------------------------------------------------------------
(* Client.NewRequest *)

NoReq == [nil |-> TRUE]

GET == <<"G", "E", "T">>

\* net/http validMethod: a non-empty sequence of token bytes (" " is none)
validMethod(method) == Len(method) > 0 /\ \A i \in 1..Len(method) : method[i] # " "

\* net/url Parse fails on a URL that holds an ASCII control byte
urlParses(u) == \A i \in 1..Len(u) : u[i] # "^"

\* fmt.Sprintf("kpurdon/apir (for %s)", c.name)
DefaultUserAgent(clientName) == <<"kpurdon/apir (for ", clientName, ")">>

NoBody == "nil"
NoHeader == "unset"

\* A RequestOption list is a sequence of user agents: the element ua stands for
\* WithUserAgent(ua).

UA1 == <<"ua1">>
UA2 == <<"ua2">>

\* WithUserAgent(ua)(r)
WithUserAgent(ua, r) == [r EXCEPT !.userAgent = ua]

RECURSIVE ApplyRequestOptions(_, _)
ApplyRequestOptions(r, options) ==
    IF options = <<>> THEN r
    ELSE ApplyRequestOptions(WithUserAgent(Head(options), r), Tail(options))

\* what http.NewRequest(method, u, body) returns: a request, or NoReq with an error
httpNewRequest(method, u, body) ==
    LET m == IF method = <<>> THEN GET ELSE method
    IN  IF validMethod(m) /\ urlParses(u)
        THEN [Method |-> m, URL |-> u, Body |-> body,
              Header |-> [ContentType |-> NoHeader, UserAgent |-> NoHeader]]
        ELSE NoReq

\* NewRequest without the return for a name that is not in c.apis: it goes on
\* with an API that has no URL and no content type
NewRequestResultNoLookup(apiName, method, url, body, options) ==
    LET api == IF apiName \in DOMAIN apis THEN apis[apiName]
               ELSE [Discoverer |-> <<>>, contentType |-> ""]
        u == composeURL(api.Discoverer, url)
        hr == httpNewRequest(method, u, body)
    IN  IF hr = NoReq
        THEN [req |-> NoReq, err |-> "ErrCreatingRequest"]
        ELSE LET h1 == IF body # NoBody
                       THEN [hr.Header EXCEPT !.ContentType = api.contentType]
                       ELSE hr.Header
                 h2 == [h1 EXCEPT !.UserAgent = DefaultUserAgent(name)]
                 r == [api |-> api, userAgent |-> <<>>,
                       Request |-> [hr EXCEPT !.Header = h2]]
             IN  [req |-> ApplyRequestOptions(r, options), err |-> "nil"]

NewRequestResult(apiName, method, url, body, options) ==
    IF apiName \notin DOMAIN apis
    THEN [req |-> NoReq, err |-> "ApiNotRegistered"]
    ELSE LET api == apis[apiName]
             u == composeURL(api.Discoverer, url)
             hr == httpNewRequest(method, u, body)
         IN  IF hr = NoReq
             THEN [req |-> NoReq, err |-> "ErrCreatingRequest"]
             ELSE LET h1 == IF body # NoBody
                            THEN [hr.Header EXCEPT !.ContentType = api.contentType]
                            ELSE hr.Header
                      h2 == [h1 EXCEPT !.UserAgent = DefaultUserAgent(name)]
                      r == [api |-> api, userAgent |-> <<>>,
                            Request |-> [hr EXCEPT !.Header = h2]]
                  IN  [req |-> ApplyRequestOptions(r, options), err |-> "nil"]

NewRequest(apiName, method, url, body, options) ==
    LET res == NewRequestResult(apiName, method, url, body, options)
    IN  /\ req' = res.req
        /\ ret' = [op |-> "NewRequest", apiName |-> apiName, method |-> method,
                   url |-> url, body |-> body, options |-> options, err |-> res.err]
        /\ UNCHANGED <<httpVars, cliVars, thrVars>>

----------------------------------------------------------------------------
(* Responses, sinks and the JSON decoder *)

\* http.StatusBadRequest
StatusBadRequest == 400

\* The bytes of a response body: braces and two string values.  The JSON
\* documents among the bodies are "a" and "b" (a string), {} (an object
\* without fields) and {v} (an object whose field color is v).
BodyBytes == {"{", "}", "a", "b"}
Values == {"a", "b"}

\* resp.Body is a stream: Body holds the bytes it yields, and readErr says
\* that it then ends with a read error (a connection that broke) and not
\* with io.EOF.

\* successData and errorData are interface{} values.  A sink is
\*   nil:    no sink;
\*   struct: a pointer to struct{Color string}, val is the field Color;
\*   writer: a *bytes.Buffer (an io.Writer without exported fields), val its bytes;
\*   value:  a struct that is not a pointer and no io.Writer.
NilSink == [kind |-> "nil", val |-> <<>>]
StructSink == [kind |-> "struct", val |-> <<>>]
WriterSink == [kind |-> "writer", val |-> <<>>]
ValueSink == [kind |-> "value", val |-> <<>>]

\* the first JSON value of the bytes of a stream, as encoding/json's Decoder
\* scans it; a value that is complete is returned whatever follows it
ParseJSON(bytes) ==
    IF bytes = <<>> THEN [kind |-> "eof"]
    ELSE IF bytes[1] \in Values THEN [kind |-> "string", val |-> bytes[1]]
    ELSE IF bytes[1] = "{" /\ Len(bytes) >= 2 /\ bytes[2] = "}"
         THEN [kind |-> "object", fields |-> <<>>]
    ELSE IF bytes[1] = "{" /\ Len(bytes) >= 3 /\ bytes[2] \in Values /\ bytes[3] = "}"
         THEN [kind |-> "object", fields |-> <<bytes[2]>>]
    ELSE [kind |-> "syntax"]

\* json.NewDecoder(resp.Body).Decode(&sink) for a sink that is not nil: the
\* decoder is handed a pointer to the interface value, so it stores through
\* the pointer the interface holds, and for a value that is no pointer it
\* replaces the local copy and leaves the caller's value alone.
Decode(resp, sink) ==
    LET doc == ParseJSON(resp.Body)
    IN  IF doc.kind \in {"eof", "syntax"} THEN [err |-> TRUE, sink |-> sink]
        ELSE IF sink.kind = "value" THEN [err |-> FALSE, sink |-> sink]
        ELSE IF doc.kind = "string" THEN [err |-> TRUE, sink |-> sink]
        ELSE IF sink.kind = "struct" /\ doc.fields # <<>>
             THEN [err |-> FALSE, sink |-> [sink EXCEPT !.val = doc.fields]]
        ELSE [err |-> FALSE, sink |-> sink]

\* the bytes a Decoder has taken from the stream when Decode returns
DecodeRead(resp) == Len(resp.Body)

----------------------------------------------------------------------------
(* decodeJSON, decodeFile, Client.Execute *)

\* decodeJSON returning false when the success payload does not decode
decodeJSONDemote(resp, successData, errorData) ==
    IF resp.StatusCode >= StatusBadRequest
    THEN IF errorData.kind # "nil"
         THEN LET d == Decode(resp, errorData)
              IN  [ok |-> FALSE, err |-> IF d.err THEN "DecodeError" ELSE "nil",
                   successData |-> successData, errorData |-> d.sink,
                   read |-> DecodeRead(resp)]
         ELSE [ok |-> FALSE, err |-> "HTTPError",
               successData |-> successData, errorData |-> errorData, read |-> 0]
    ELSE IF successData.kind # "nil"
         THEN LET d == Decode(resp, successData)
              IN  [ok |-> ~d.err, err |-> IF d.err THEN "DecodeError" ELSE "nil",
                   successData |-> d.sink, errorData |-> errorData,
                   read |-> DecodeRead(resp)]
         ELSE [ok |-> TRUE, err |-> "nil",
               successData |-> successData, errorData |-> errorData, read |-> 0]

\* decodeJSON decoding a success payload into errorData
decodeJSONWrongSink(resp, successData, errorData) ==
    IF resp.StatusCode >= StatusBadRequest
    THEN IF errorData.kind # "nil"
         THEN LET d == Decode(resp, errorData)
              IN  [ok |-> FALSE, err |-> IF d.err THEN "DecodeError" ELSE "nil",
                   successData |-> successData, errorData |-> d.sink,
                   read |-> DecodeRead(resp)]
         ELSE [ok |-> FALSE, err |-> "HTTPError",
               successData |-> successData, errorData |-> errorData, read |-> 0]
    ELSE IF errorData.kind # "nil"
         THEN LET d == Decode(resp, errorData)
              IN  [ok |-> TRUE, err |-> IF d.err THEN "DecodeError" ELSE "nil",
                   successData |-> successData, errorData |-> d.sink,
                   read |-> DecodeRead(resp)]
         ELSE [ok |-> TRUE, err |-> "nil",
               successData |-> successData, errorData |-> errorData, read |-> 0]

\* decodeJSON with resp.StatusCode > http.StatusBadRequest for >=
decodeJSONAbove(resp, successData, errorData) ==
    IF resp.StatusCode > StatusBadRequest
    THEN IF errorData.kind # "nil"
         THEN LET d == Decode(resp, errorData)
              IN  [ok |-> FALSE, err |-> IF d.err THEN "DecodeError" ELSE "nil",
                   successData |-> successData, errorData |-> d.sink,
                   read |-> DecodeRead(resp)]
         ELSE [ok |-> FALSE, err |-> "HTTPError",
               successData |-> successData, errorData |-> errorData, read |-> 0]
    ELSE IF successData.kind # "nil"
         THEN LET d == Decode(resp, successData)
              IN  [ok |-> TRUE, err |-> IF d.err THEN "DecodeError" ELSE "nil",
                   successData |-> d.sink, errorData |-> errorData,
                   read |-> DecodeRead(resp)]
         ELSE [ok |-> TRUE, err |-> "nil",
               successData |-> successData, errorData |-> errorData, read |-> 0]

\* Each returns the pair (ok, err) with the sinks as the caller finds them
\* and the number of bytes taken from resp.Body.
decodeJSON(resp, successData, errorData) ==
    IF resp.StatusCode >= StatusBadRequest
    THEN IF errorData.kind # "nil"
         THEN LET d == Decode(resp, errorData)
              IN  [ok |-> FALSE, err |-> IF d.err THEN "DecodeError" ELSE "nil",
                   successData |-> successData, errorData |-> d.sink,
                   read |-> DecodeRead(resp)]
         ELSE [ok |-> FALSE, err |-> "HTTPError",
               successData |-> successData, errorData |-> errorData, read |-> 0]
    ELSE IF successData.kind # "nil"
         THEN LET d == Decode(resp, successData)
              IN  [ok |-> TRUE, err |-> IF d.err THEN "DecodeError" ELSE "nil",
                   successData |-> d.sink, errorData |-> errorData,
                   read |-> DecodeRead(resp)]
         ELSE [ok |-> TRUE, err |-> "nil",
               successData |-> successData, errorData |-> errorData, read |-> 0]

\* decodeFile with resp.StatusCode > http.StatusBadRequest for >=
decodeFileAbove(resp, successData) ==
    IF resp.StatusCode > StatusBadRequest
    THEN [ok |-> FALSE, err |-> "HTTPError", successData |-> successData, read |-> 0]
    ELSE IF successData.kind = "writer"
         THEN [ok |-> TRUE,
               err |-> IF resp.readErr THEN "CopyError" ELSE "nil",
               successData |-> [successData EXCEPT !.val = @ \o resp.Body],
               read |-> Len(resp.Body)]
         ELSE IF successData.kind = "nil"
         THEN [ok |-> TRUE, err |-> "nil", successData |-> successData, read |-> 0]
         ELSE [ok |-> FALSE, err |-> "InvalidSinkType",
               successData |-> successData, read |-> 0]

\* decodeFile checking the sink only after the body was drained
decodeFileLateCheck(resp, successData) ==
    IF resp.StatusCode >= StatusBadRequest
    THEN [ok |-> FALSE, err |-> "HTTPError", successData |-> successData, read |-> 0]
    ELSE IF successData.kind # "nil"
         THEN IF successData.kind # "writer"
              THEN [ok |-> FALSE, err |-> "InvalidSinkType",
                    successData |-> successData, read |-> Len(resp.Body)]
              ELSE [ok |-> TRUE,
                    err |-> IF resp.readErr THEN "CopyError" ELSE "nil",
                    successData |-> [successData EXCEPT !.val = @ \o resp.Body],
                    read |-> Len(resp.Body)]
         ELSE [ok |-> TRUE, err |-> "nil", successData |-> successData, read |-> 0]

\* decodeFile returning false when io.Copy fails
decodeFileDemote(resp, successData) ==
    IF resp.StatusCode >= StatusBadRequest
    THEN [ok |-> FALSE, err |-> "HTTPError", successData |-> successData, read |-> 0]
    ELSE IF successData.kind # "nil"
         THEN IF successData.kind # "writer"
              THEN [ok |-> FALSE, err |-> "InvalidSinkType",
                    successData |-> successData, read |-> 0]
              ELSE [ok |-> ~resp.readErr,
                    err |-> IF resp.readErr THEN "CopyError" ELSE "nil",
                    successData |-> [successData EXCEPT !.val = @ \o resp.Body],
                    read |-> Len(resp.Body)]
         ELSE [ok |-> TRUE, err |-> "nil", successData |-> successData, read |-> 0]

\* io.Copy(w, resp.Body): the bytes the stream yields are appended to w
decodeFile(resp, successData) ==
    IF resp.StatusCode >= StatusBadRequest
    THEN [ok |-> FALSE, err |-> "HTTPError", successData |-> successData, read |-> 0]
    ELSE IF successData.kind # "nil"
         THEN IF successData.kind # "writer"
              THEN [ok |-> FALSE, err |-> "InvalidSinkType",
                    successData |-> successData, read |-> 0]
              ELSE [ok |-> TRUE,
                    err |-> IF resp.readErr THEN "CopyError" ELSE "nil",
                    successData |-> [successData EXCEPT !.val = @ \o resp.Body],
                    read |-> Len(resp.Body)]
         ELSE [ok |-> TRUE, err |-> "nil", successData |-> successData, read |-> 0]

\* Execute going on to the codec although c.client.Do returned an error
ExecuteResultNoErrCheck(r, tr, successData, errorData) ==
    CASE r.api.contentType = ApplicationJSON ->
           LET d == decodeJSON(tr.resp, successData, errorData)
           IN  [ok |-> d.ok, err |-> d.err, successData |-> d.successData,
                errorData |-> d.errorData, read |-> d.read, closed |-> TRUE,
                codec |-> "decodeJSON", dispatched |-> TRUE]
      [] r.api.contentType = TextCSV ->
           LET d == decodeFile(tr.resp, successData)
           IN  [ok |-> d.ok, err |-> d.err, successData |-> d.successData,
                errorData |-> errorData, read |-> d.read, closed |-> TRUE,
                codec |-> "decodeFile", dispatched |-> TRUE]
      [] OTHER ->
           [ok |-> FALSE, err |-> "UnimplementedContentType",
            successData |-> successData, errorData |-> errorData, read |-> 0,
            closed |-> TRUE, codec |-> "none", dispatched |-> TRUE]

\* Execute closing resp.Body after the switch, which its default case leaves
ExecuteResultLateClose(r, tr, successData, errorData) ==
    IF ~tr.delivered
    THEN [ok |-> FALSE, err |-> "TransportError", successData |-> successData,
          errorData |-> errorData, read |-> 0, closed |-> FALSE, codec |-> "none",
          dispatched |-> TRUE]
    ELSE CASE r.api.contentType = ApplicationJSON ->
                LET d == decodeJSON(tr.resp, successData, errorData)
                IN  [ok |-> d.ok, err |-> d.err, successData |-> d.successData,
                     errorData |-> d.errorData, read |-> d.read, closed |-> TRUE,
                     codec |-> "decodeJSON", dispatched |-> TRUE]
           [] r.api.contentType = TextCSV ->
                LET d == decodeFile(tr.resp, successData)
                IN  [ok |-> d.ok, err |-> d.err, successData |-> d.successData,
                     errorData |-> errorData, read |-> d.read, closed |-> TRUE,
                     codec |-> "decodeFile", dispatched |-> TRUE]
           [] OTHER ->
                [ok |-> FALSE, err |-> "UnimplementedContentType",
                 successData |-> successData, errorData |-> errorData, read |-> 0,
                 closed |-> FALSE, codec |-> "none", dispatched |-> TRUE]

\* Execute looking at the content type before it calls c.client.Do
ExecuteResultCheckFirst(r, tr, successData, errorData) ==
    IF r.api.contentType \notin {ApplicationJSON, TextCSV}
    THEN [ok |-> FALSE, err |-> "UnimplementedContentType",
          successData |-> successData, errorData |-> errorData, read |-> 0,
          closed |-> FALSE, codec |-> "none", dispatched |-> FALSE]
    ELSE IF ~tr.delivered
    THEN [ok |-> FALSE, err |-> "TransportError", successData |-> successData,
          errorData |-> errorData, read |-> 0, closed |-> FALSE, codec |-> "none",
          dispatched |-> TRUE]
    ELSE IF r.api.contentType = ApplicationJSON
    THEN LET d == decodeJSON(tr.resp, successData, errorData)
         IN  [ok |-> d.ok, err |-> d.err, successData |-> d.successData,
              errorData |-> d.errorData, read |-> d.read, closed |-> TRUE,
              codec |-> "decodeJSON", dispatched |-> TRUE]
    ELSE LET d == decodeFile(tr.resp, successData)
         IN  [ok |-> d.ok, err |-> d.err, successData |-> d.successData,
              errorData |-> errorData, read |-> d.read, closed |-> TRUE,
              codec |-> "decodeFile", dispatched |-> TRUE]

\* tr is what c.client.Do(req.Request) returns: an error (delivered = FALSE)
\* or the response tr.resp.  The call of Do is the first statement, so the
\* request is dispatched on every path.  The deferred function closes resp.Body.
ExecuteResult(r, tr, successData, errorData) ==
    IF ~tr.delivered
    THEN [ok |-> FALSE, err |-> "TransportError", successData |-> successData,
          errorData |-> errorData, read |-> 0, closed |-> FALSE, codec |-> "none",
          dispatched |-> TRUE]
    ELSE CASE r.api.contentType = ApplicationJSON ->
                LET d == decodeJSON(tr.resp, successData, errorData)
                IN  [ok |-> d.ok, err |-> d.err, successData |-> d.successData,
                     errorData |-> d.errorData, read |-> d.read, closed |-> TRUE,
                     codec |-> "decodeJSON", dispatched |-> TRUE]
           [] r.api.contentType = TextCSV ->
                LET d == decodeFile(tr.resp, successData)
                IN  [ok |-> d.ok, err |-> d.err, successData |-> d.successData,
                     errorData |-> errorData, read |-> d.read, closed |-> TRUE,
                     codec |-> "decodeFile", dispatched |-> TRUE]
           [] OTHER ->
                [ok |-> FALSE, err |-> "UnimplementedContentType",
                 successData |-> successData, errorData |-> errorData, read |-> 0,
                 closed |-> TRUE, codec |-> "none", dispatched |-> TRUE]

\* A Request is executed once: its body stream is spent by the transport.
Execute(tr, successData, errorData) ==
    /\ req # NoReq
    /\ LET res == ExecuteResult(req, tr, successData, errorData)
       IN  ret' = [op |-> "Execute", api |-> req.api, dispatched |-> res.dispatched,
                   delivered |-> tr.delivered, resp |-> tr.resp,
                   successIn |-> successData, errorIn |-> errorData,
                   ok |-> res.ok, err |-> res.err,
                   successData |-> res.successData, errorData |-> res.errorData,
                   read |-> res.read, closed |-> res.closed, codec |-> res.codec]
    /\ req' = NoReq
    /\ UNCHANGED <<httpVars, cliVars, thrVars>>

----------------------------------------------------------------------------
(* Spec: the registry and the request builder *)

ClientNames == {"svc1", "svc2"}
Names == {"n1", "n2"}
\* discoverer.NewDirect(url) for URLs that parse, without and with a trailing
\* slash, and for one that does not
Discoverers == {<<"a">>, <<"a", "/">>, <<"^">>}
APIOptions == {<<>>, <<"">>, <<TextCSV>>, <<TextCSV, ApplicationJSON>>}
Methods == {GET, <<>>, <<"G", " ">>}
Paths == {<<>>, <<"/", "a">>, <<"^">>}
Bodies == {NoBody, "body"}
RequestOptions == {<<>>, <<UA1>>, <<UA1, UA2>>}

NoThreads == <<>>
\* the specifications of one Client leave the Clients of the process aside
NoClients == <<>>
NoHTTPClients == <<>>

\* NewClient(name): an empty registry
Init ==
    /\ name \in ClientNames
    /\ apis = <<>>
    /\ req = NoReq
    /\ ret = [op |-> "NewClient"]
    /\ pc = NoThreads
    /\ local = NoThreads
    /\ writers = {}
    /\ readers = {}
    /\ clients = NoClients
    /\ httpClients = NoHTTPClients

Register ==
    \E n \in Names, d \in Discoverers, o \in APIOptions : MustAddAPI(n, d, o)

Build ==
    \E n \in Names, m \in Methods, p \in Paths, b \in Bodies, o \in RequestOptions :
        NewRequest(n, m, p, b, o)

Next == Register \/ Build

Spec == Init /\ [][Next]_vars

----------------------------------------------------------------------------
(* SpecExec: one API of each content type, its requests and their execution *)

StatusCodes == {200, 399, 400, 502}
ResponseBodies == SeqsUpTo(BodyBytes, MaxBody)
NoResp == [StatusCode |-> 0, Body |-> <<>>, readErr |-> FALSE]

Responses ==
    {[StatusCode |-> sc, Body |-> b, readErr |-> e] :
        sc \in StatusCodes, b \in ResponseBodies, e \in BOOLEAN}

\* what c.client.Do can return
TransportResults ==
    {[delivered |-> FALSE, resp |-> NoResp]}
        \cup {[delivered |-> TRUE, resp |-> rp] : rp \in Responses}

SuccessSinks == {NilSink, StructSink, WriterSink, ValueSink}
ErrorSinks == {NilSink, StructSink, ValueSink}

ExecAPIOptions == {<<>>, <<"">>, <<TextCSV>>, <<TextXML>>, <<TextCSV, ApplicationJSON>>}

RegisterOne ==
    \E o \in ExecAPIOptions : MustAddAPI("n1", <<"a", "/">>, o)

BuildOne ==
    \E n \in Names : NewRequest(n, GET, <<>>, NoBody, <<>>)

Run ==
    /\ req # NoReq
    /\ \E tr \in TransportResults, sd \in SuccessSinks, ed \in ErrorSinks :
           Execute(tr, sd, ed)

NextExec == RegisterOne \/ BuildOne \/ Run

SpecExec == Init /\ [][NextExec]_vars

----------------------------------------------------------------------------
(* SpecCompose: the URL composition of NewRequest on every base and path *)

URLStrings == SeqsUpTo(URLChars, MaxStr)

InitCompose ==
    /\ name = "svc1"
    /\ apis = <<>>
    /\ req = NoReq
    /\ ret \in {[op |-> "input", base |-> b, path |-> p] : b, p \in URLStrings}
    /\ pc = NoThreads
    /\ local = NoThreads
    /\ writers = {}
    /\ readers = {}
    /\ clients = NoClients
    /\ httpClients = NoHTTPClients

Compose ==
    /\ ret.op = "input"
    /\ ret' = [op |-> "compose", base |-> ret.base, path |-> ret.path,
               u |-> composeURL(ret.base, ret.path)]
    /\ UNCHANGED <<httpVars, cliVars, req, thrVars>>

NextCompose == Compose

SpecCompose == InitCompose /\ [][NextCompose]_vars

----------------------------------------------------------------------------
(* SpecRace: goroutines calling MustAddAPI and NewRequest on one Client.     *)
(* Client has no lock, and an access of a Go map is no atomic step: it is   *)
(* modelled as an interval, with a begin and an end.  An access that        *)
(* overlaps an assignment by another goroutine is a data race; it is torn,  *)
(* and what it yields is any outcome: a fatal error of the runtime          *)
(* ("concurrent map read and map write", "concurrent map writes"), or       *)
(* either answer.                                                           *)

Threads == 1..MaxThreads

\* the accesses in progress that an access by t conflicts with
Conflicts(t, isWrite) ==
    IF isWrite THEN (writers \cup readers) \ {t} ELSE writers \ {t}

\* t begins an access: it and every access it conflicts with are torn
BeginAccess(t, isWrite, at) ==
    /\ pc' = [pc EXCEPT ![t] = at]
    /\ local' = [u \in Threads |->
                    IF u = t THEN [local[u] EXCEPT !.torn = Conflicts(t, isWrite) # {}]
                    ELSE IF u \in Conflicts(t, isWrite) THEN [local[u] EXCEPT !.torn = TRUE]
                    ELSE local[u]]
    /\ IF isWrite
       THEN writers' = writers \cup {t} /\ readers' = readers
       ELSE readers' = readers \cup {t} /\ writers' = writers

InitRace ==
    /\ name = "svc1"
    /\ apis = <<>>
    /\ req = NoReq
    /\ ret = [op |-> "NewClient"]
    /\ pc = [t \in Threads |-> "idle"]
    /\ local = [t \in Threads |-> [op |-> "none", torn |-> FALSE]]
    /\ writers = {}
    /\ readers = {}
    /\ clients = NoClients
    /\ httpClients = NoHTTPClients

\* a goroutine calls c.MustAddAPI(n, discoverer, options)
CallMustAddAPI(t, n, discoverer, options) ==
    /\ pc[t] = "idle"
    /\ pc' = [pc EXCEPT ![t] = "add_check"]
    /\ local' = [local EXCEPT ![t] = [op |-> "MustAddAPI", name |-> n, torn |-> FALSE,
                                      api |-> NewAPI(discoverer, options)]]
    /\ UNCHANGED <<httpVars, cliVars, callVars, writers, readers>>

\* if _, ok := c.apis[name]; ok
AddCheckBegin(t) ==
    /\ pc[t] = "add_check"
    /\ BeginAccess(t, FALSE, "add_checking")
    /\ UNCHANGED <<httpVars, cliVars, callVars>>

AddCheckEnd(t) ==
    /\ pc[t] = "add_checking"
    /\ readers' = readers \ {t}
    /\ \E found \in (IF local[t].torn THEN BOOLEAN ELSE {local[t].name \in DOMAIN apis}),
          fatal \in (IF local[t].torn THEN BOOLEAN ELSE {FALSE}) :
           pc' = [pc EXCEPT ![t] = IF fatal THEN "fatal"
                                   ELSE IF found THEN "panicked" ELSE "add_assign"]
    /\ UNCHANGED <<httpVars, cliVars, callVars, local, writers>>

\* c.apis[name] = api
AddAssignBegin(t) ==
    /\ pc[t] = "add_assign"
    /\ BeginAccess(t, TRUE, "add_assigning")
    /\ UNCHANGED <<httpVars, cliVars, callVars>>

AddAssignEnd(t) ==
    /\ pc[t] = "add_assigning"
    /\ writers' = writers \ {t}
    /\ \E stored \in (IF local[t].torn THEN BOOLEAN ELSE {TRUE}),
          fatal \in (IF local[t].torn THEN BOOLEAN ELSE {FALSE}) :
           /\ pc' = [pc EXCEPT ![t] = IF fatal THEN "fatal" ELSE "added"]
           /\ apis' = IF stored
                      THEN [k \in DOMAIN apis \cup {local[t].name} |->
                               IF k = local[t].name THEN local[t].api ELSE apis[k]]
                      ELSE apis
    /\ UNCHANGED <<httpVars, name, callVars, local, readers>>

\* a goroutine calls c.NewRequest(ctx, apiName, ...)
CallNewRequest(t, apiName) ==
    /\ pc[t] = "idle"
    /\ pc' = [pc EXCEPT ![t] = "req_lookup"]
    /\ local' = [local EXCEPT ![t] = [op |-> "NewRequest", name |-> apiName,
                                      torn |-> FALSE]]
    /\ UNCHANGED <<httpVars, cliVars, callVars, writers, readers>>

\* api, ok := c.apis[apiName]
LookupBegin(t) ==
    /\ pc[t] = "req_lookup"
    /\ BeginAccess(t, FALSE, "req_looking")
    /\ UNCHANGED <<httpVars, cliVars, callVars>>

LookupEnd(t) ==
    /\ pc[t] = "req_looking"
    /\ readers' = readers \ {t}
    /\ \E found \in (IF local[t].torn THEN BOOLEAN ELSE {local[t].name \in DOMAIN apis}),
          fatal \in (IF local[t].torn THEN BOOLEAN ELSE {FALSE}) :
           pc' = [pc EXCEPT ![t] = IF fatal THEN "fatal"
                                   ELSE IF found THEN "built" ELSE "not_initialized"]
    /\ UNCHANGED <<httpVars, cliVars, callVars, local, writers>>

NextRace ==
    \E t \in Threads :
        \/ \E n \in Names, d \in Discoverers, o \in APIOptions : CallMustAddAPI(t, n, d, o)
        \/ AddCheckBegin(t)
        \/ AddCheckEnd(t)
        \/ AddAssignBegin(t)
        \/ AddAssignEnd(t)
        \/ \E n \in Names : CallNewRequest(t, n)
        \/ LookupBegin(t)
        \/ LookupEnd(t)

SpecRace == InitRace /\ [][NextRace]_vars

----------------------------------------------------------------------------
(* Properties of the registry (Spec) *)

\* C1: a MustAddAPI call for a name that is in the registry panics and leaves
\* the registry as it was, whatever discoverer and options it is given.
C1_DuplicateRegistrationRejected ==
    [][(ret'.op = "MustAddAPI" /\ ret'.name \in DOMAIN apis)
           => (ret'.panicked /\ apis' = apis)]_vars

\* a second registration with another discoverer and another content type panicked
C1_Witness ==
    /\ ret.op = "MustAddAPI"
    /\ ret.panicked
    /\ ret.options = <<TextCSV>>
    /\ apis[ret.name].Discoverer # ret.discoverer
    /\ apis[ret.name].contentType = ApplicationJSON

\* the inputs http.NewRequest accepts: a method that is empty or a token, and
\* a base URL and a path without control bytes
Buildable(base, method, path) ==
    /\ method = <<>> \/ (\A i \in 1..Len(method) : method[i] # " ")
    /\ \A i \in 1..Len(base) : base[i] # "^"
    /\ \A i \in 1..Len(path) : path[i] # "^"

\* C8 as stated: NewRequest returns nil and an error for a name that is not
\* registered, and a request without error for a registered name whose base
\* URL is valid.
C8_AsStated ==
    ret.op = "NewRequest" =>
        /\ ret.apiName \notin DOMAIN apis =>
               (req = NoReq /\ ret.err = "ApiNotRegistered")
        /\ (ret.apiName \in DOMAIN apis
                /\ \A i \in 1..Len(apis[ret.apiName].Discoverer) :
                       apis[ret.apiName].Discoverer[i] # "^")
               => (req # NoReq /\ ret.err = "nil")

\* C8: NewRequest leaves the registry alone; for a name that is not
\* registered it returns nil and the not-initialized error; for a registered
\* name it returns a request without error exactly when the method is empty or
\* a token and the base URL and the path parse, and nil with an error otherwise.
C8_NewRequestOutcome ==
    [][ret'.op = "NewRequest" =>
          /\ apis' = apis
          /\ (req' = NoReq) <=> (ret'.err # "nil")
          /\ ret'.apiName \notin DOMAIN apis =>
                 (req' = NoReq /\ ret'.err = "ApiNotRegistered")
          /\ ret'.apiName \in DOMAIN apis =>
                 ((req' # NoReq) <=>
                      Buildable(apis[ret'.apiName].Discoverer, ret'.method, ret'.url))]_vars

\* an unknown name was refused by a registry that is not empty, whatever the
\* body and the options
C8_Witness ==
    /\ ret.op = "NewRequest"
    /\ apis # <<>>
    /\ ret.apiName \notin DOMAIN apis
    /\ ret.body # NoBody
    /\ ret.options # <<>>
    /\ req = NoReq

----------------------------------------------------------------------------
(* Properties of Execute (SpecExec) *)

Executed == ret.op = "Execute"
ExecutedJSON == Executed /\ ret.delivered /\ ret.api.contentType = ApplicationJSON
ExecutedCSV == Executed /\ ret.delivered /\ ret.api.contentType = TextCSV

\* the response body begins with the object {v}
YieldsObject(resp, v) ==
    /\ Len(resp.Body) >= 3
    /\ SubSeq(resp.Body, 1, 3) = <<"{", v, "}">>

\* C2 as stated: Execute returns true exactly when a response was delivered,
\* its status is below 400 and, for JSON, the success payload did not fail to
\* decode; it never returns true with a decode error.
C2_AsStated ==
    Executed =>
        /\ ret.ok <=> (/\ ret.delivered
                       /\ ret.resp.StatusCode < 400
                       /\ ret.api.contentType = ApplicationJSON =>
                              ret.err # "DecodeError")
        /\ ~(ret.ok /\ ret.err = "DecodeError")

\* C2: Execute returns true exactly when a response was delivered, the API's
\* content type has a codec (JSON or CSV), the status is below 400 and, for
\* CSV, the success sink is absent or an io.Writer; a success payload that
\* fails to decode leaves the result true.
C2_OkIffStatusBelow400 ==
    Executed =>
        (ret.ok <=> (/\ ret.delivered
                     /\ ret.resp.StatusCode < 400
                     /\ ret.api.contentType \in {ApplicationJSON, TextCSV}
                     /\ ret.api.contentType = TextCSV =>
                            ret.successIn.kind \in {"nil", "writer"}))

\* Execute returned (true, DecodeError)
C2_Witness ==
    /\ ExecutedJSON
    /\ ret.ok
    /\ ret.err = "DecodeError"
    /\ ret.resp.StatusCode = 200

\* C3: for a JSON API and a status below 400, a body holding the object {v}
\* makes Execute return (true, nil) with v in the field of the success sink;
\* without a success sink it returns (true, nil) and reads nothing.
C3_JSONSuccess ==
    (ExecutedJSON /\ ret.resp.StatusCode < 400) =>
        /\ \A v \in Values :
               (ret.successIn.kind = "struct" /\ YieldsObject(ret.resp, v)) =>
                   (ret.ok /\ ret.err = "nil" /\ ret.successData.val = <<v>>)
        /\ ret.successIn.kind = "nil" =>
               /\ ret.ok
               /\ ret.err = "nil"
               /\ ret.read = 0
               /\ ret.successData = ret.successIn
               /\ ret.errorData = ret.errorIn

\* a success sink was filled from a response of status 399
C3_Witness ==
    /\ ExecutedJSON
    /\ ret.resp.StatusCode = 399
    /\ ret.successIn = StructSink
    /\ ret.errorIn = StructSink
    /\ ret.successData.val = <<"b">>
    /\ ret.ok
    /\ ret.err = "nil"

\* C4: for a JSON API and a status of 400 or more, an error sink and a body
\* holding the object {v} make Execute return (false, nil) with v in the field
\* of the error sink; without an error sink it returns (false, HTTPError),
\* reads nothing and leaves the success sink alone.
C4_JSONError ==
    (ExecutedJSON /\ ret.resp.StatusCode >= 400) =>
        /\ \A v \in Values :
               (ret.errorIn.kind = "struct" /\ YieldsObject(ret.resp, v)) =>
                   (~ret.ok /\ ret.err = "nil" /\ ret.errorData.val = <<v>>)
        /\ ret.errorIn.kind = "nil" =>
               /\ ~ret.ok
               /\ ret.err = "HTTPError"
               /\ ret.read = 0
               /\ ret.successData = ret.successIn
               /\ ret.errorData = ret.errorIn

\* an error sink was filled from a response of status 400
C4_Witness ==
    /\ ExecutedJSON
    /\ ret.resp.StatusCode = 400
    /\ ret.errorIn = StructSink
    /\ ret.successIn = StructSink
    /\ ret.errorData.val = <<"a">>
    /\ ret.successData = StructSink
    /\ ~ret.ok
    /\ ret.err = "nil"

\* C5: for a CSV API every status of 400 or more makes Execute return
\* (false, HTTPError), whatever the sinks, and neither sink is written.
C5_CSVError ==
    (ExecutedCSV /\ ret.resp.StatusCode >= 400) =>
        /\ ~ret.ok
        /\ ret.err = "HTTPError"
        /\ ret.successData = ret.successIn
        /\ ret.errorData = ret.errorIn

\* a CSV response of status 400 with a body, a writer and an error sink
C5_Witness ==
    /\ ExecutedCSV
    /\ ret.resp.StatusCode = 400
    /\ ret.resp.Body # <<>>
    /\ ~ret.resp.readErr
    /\ ret.successIn = WriterSink
    /\ ret.errorIn = StructSink
    /\ ret.err = "HTTPError"

\* C6: for a CSV API and a status below 400, a success sink that is no
\* io.Writer makes Execute return (false, InvalidSinkType) with no byte of
\* the body read.
C6_CSVInvalidSink ==
    (ExecutedCSV /\ ret.resp.StatusCode < 400 /\ ret.successIn.kind \in {"struct", "value"}) =>
        /\ ~ret.ok
        /\ ret.err = "InvalidSinkType"
        /\ ret.read = 0
        /\ ret.successData = ret.successIn

\* a struct was handed to a CSV response with a body
C6_Witness ==
    /\ ExecutedCSV
    /\ ret.resp.StatusCode = 200
    /\ ret.resp.Body # <<>>
    /\ ~ret.resp.readErr
    /\ ret.successIn = StructSink
    /\ ret.err = "InvalidSinkType"

\* C7: when c.client.Do fails, Execute returns (false, TransportError), calls
\* no codec and leaves both sinks alone, for every content type.
C7_TransportFailure ==
    (Executed /\ ~ret.delivered) =>
        /\ ~ret.ok
        /\ ret.err = "TransportError"
        /\ ret.codec = "none"
        /\ ret.read = 0
        /\ ret.successData = ret.successIn
        /\ ret.errorData = ret.errorIn

\* the transport failed on a request of a JSON API with both sinks supplied
C7_Witness ==
    /\ Executed
    /\ ~ret.delivered
    /\ ret.api.contentType = ApplicationJSON
    /\ ret.successIn = StructSink
    /\ ret.errorIn = StructSink
    /\ ret.err = "TransportError"

----------------------------------------------------------------------------
(* Properties of the URL composition (SpecCompose) *)

IsTrimmedBase(t, base) ==
    /\ Len(t) <= Len(base)
    /\ t = SubSeq(base, 1, Len(t))
    /\ \A i \in (Len(t) + 1)..Len(base) : base[i] = "/"
    /\ t = <<>> \/ t[Len(t)] # "/"

IsTrimmedPath(t, path) ==
    /\ Len(t) <= Len(path)
    /\ t = SubSeq(path, Len(path) - Len(t) + 1, Len(path))
    /\ \A i \in 1..(Len(path) - Len(t)) : path[i] = "/"
    /\ t = <<>> \/ t[1] # "/"

\* C9: the composed URL is the base without its trailing slashes, one slash,
\* and the path without its leading slashes.
C9_OneSeparatingSlash ==
    ret.op = "compose" =>
        \E i \in 0..Len(ret.base), j \in 0..Len(ret.path) :
            LET b == SubSeq(ret.base, 1, i)
                p == SubSeq(ret.path, Len(ret.path) - j + 1, Len(ret.path))
            IN  /\ IsTrimmedBase(b, ret.base)
                /\ IsTrimmedPath(p, ret.path)
                /\ Len(ret.u) = i + 1 + j
                /\ SubSeq(ret.u, 1, i) = b
                /\ ret.u[i + 1] = "/"
                /\ SubSeq(ret.u, i + 2, Len(ret.u)) = p

\* a base with two trailing slashes and a path with two leading slashes
C9_Witness ==
    /\ ret.op = "compose"
    /\ ret.base = <<"a", "/", "/">>
    /\ ret.path = <<"/", "/", "a">>
    /\ ret.u = <<"a", "/", "a">>

----------------------------------------------------------------------------
(* Properties of concurrent calls (SpecRace) *)

\* C10: registrations exclude each other and every lookup: no access of the
\* map c.apis is in progress while a goroutine assigns to it, so no access is
\* torn.
C10_NoDataRace ==
    /\ \A t \in writers : writers \cup readers = {t}
    /\ \A t \in Threads : ~local[t].torn

----------------------------------------------------------------------------
(* Properties of the headers of a request (Spec) *)

\* C11: every request NewRequest returns carries a User-Agent header: the
\* template with the client's name when no WithUserAgent option is given, and
\* the user agent of the last WithUserAgent option otherwise.
C11_UserAgentHeader ==
    (ret.op = "NewRequest" /\ req # NoReq) =>
        req.Request.Header.UserAgent =
            IF ret.options = <<>>
            THEN <<"kpurdon/apir (for ", name, ")">>
            ELSE ret.options[Len(ret.options)]

----------------------------------------------------------------------------
(* Properties of the declared content type (SpecExec) *)

\* C12: an API registered without a content type (no option, or the empty
\* content type as the last one) declares application/json, and one registered
\* with content types declares the last of them; no registered API has an
\* empty content type; a request carries the API of its name, and Execute
\* hands a response for an application/json API to decodeJSON.
C12_DeclaredContentType ==
    /\ [](\A n \in DOMAIN apis : apis[n].contentType # "")
    /\ [][/\ (ret'.op = "MustAddAPI" /\ ~ret'.panicked) =>
               apis'[ret'.name].contentType =
                   IF ret'.options = <<>> \/ ret'.options[Len(ret'.options)] = ""
                   THEN "application/json"
                   ELSE ret'.options[Len(ret'.options)]
          /\ (ret'.op = "NewRequest" /\ req' # NoReq) =>
               req'.api = apis[ret'.apiName]
          /\ (ret'.op = "Execute" /\ ret'.delivered) =>
               /\ ret'.api = req.api
               /\ ret'.api.contentType = "application/json" => ret'.codec = "decodeJSON"]_vars

\* an API was registered without options and declares application/json
C12_Witness ==
    /\ ret.op = "MustAddAPI"
    /\ ~ret.panicked
    /\ ret.options = <<>>
    /\ apis[ret.name].contentType = "application/json"

\* C13: for a status below 400 and a success sink, a JSON body that does not
\* decode into the sink makes Execute return (true, DecodeError), and a CSV
\* stream that fails part-way makes it return (true, CopyError) with the bytes
\* the stream yielded written to the writer.
C13_SuccessPathErrorKeepsTrue ==
    /\ (/\ ExecutedJSON
        /\ ret.resp.StatusCode < 400
        /\ ret.successIn.kind # "nil"
        /\ Decode(ret.resp, ret.successIn).err) =>
           (ret.ok /\ ret.err = "DecodeError")
    /\ (/\ ExecutedCSV
        /\ ret.resp.StatusCode < 400
        /\ ret.successIn.kind = "writer"
        /\ ret.resp.readErr) =>
           /\ ret.ok
           /\ ret.err = "CopyError"
           /\ ret.successData.val = ret.successIn.val \o ret.resp.Body

\* a CSV stream of status 200 failed after it yielded bytes to the writer
C13_Witness ==
    /\ ExecutedCSV
    /\ ret.resp.StatusCode = 200
    /\ ret.resp.readErr
    /\ ret.resp.Body # <<>>
    /\ ret.successIn = WriterSink
    /\ ret.successData.val = ret.resp.Body
    /\ ret.ok
    /\ ret.err = "CopyError"

\* C14: Execute has closed the body of every response the transport handed
\* to it when it returns, whatever it returns (a codec's success, DecodeError,
\* CopyError, HTTPError, InvalidSinkType, UnimplementedContentType), and closes
\* no body when the transport failed.
C14_BodyClosedOnEveryPath ==
    Executed =>
        /\ ret.delivered => ret.closed
        /\ ~ret.delivered => ~ret.closed
        /\ ret.err \in {"nil", "DecodeError", "CopyError", "HTTPError",
                        "InvalidSinkType", "UnimplementedContentType"} => ret.closed
        /\ ret.err = "TransportError" => ~ret.closed

\* Execute left through the default case of its switch with the body closed
C14_Witness ==
    /\ Executed
    /\ ret.delivered
    /\ ret.api.contentType = TextXML
    /\ ret.resp.Body # <<>>
    /\ ret.err = "UnimplementedContentType"
    /\ ret.closed

\* C15 as stated: for a content type without codec Execute returns
\* (false, UnimplementedContentType) without dispatching the request and
\* without reading a response body.
C15_AsStated ==
    (Executed /\ ret.api.contentType \notin {ApplicationJSON, TextCSV}) =>
        /\ ~ret.ok
        /\ ret.err = "UnimplementedContentType"
        /\ ~ret.dispatched
        /\ ret.read = 0

\* C15: for a content type without codec Execute dispatches the request
\* first; when the transport fails it returns (false, TransportError), and
\* when the transport delivers a response it returns
\* (false, UnimplementedContentType) with no byte of the body read, no codec
\* called, both sinks left alone and the body closed.
C15_UnimplementedAfterDispatch ==
    (Executed /\ ret.api.contentType \notin {ApplicationJSON, TextCSV}) =>
        /\ ret.dispatched
        /\ ~ret.ok
        /\ ret.read = 0
        /\ ret.codec = "none"
        /\ ret.successData = ret.successIn
        /\ ret.errorData = ret.errorIn
        /\ ret.delivered => (ret.err = "UnimplementedContentType" /\ ret.closed)
        /\ ~ret.delivered => ret.err = "TransportError"

\* the transport failed on a request of an API that declares text/xml
C15_Witness ==
    /\ Executed
    /\ ret.api.contentType = TextXML
    /\ ret.dispatched
    /\ ~ret.delivered
    /\ ret.err = "TransportError"

----------------------------------------------------------------------------
(* Properties of the request URL for an empty path (Spec) *)

\* C16 as stated: NewRequest with an empty path on a registered API, with a
\* base URL and a method that http.NewRequest accepts, returns a request whose
\* URL is the base URL of the discoverer, nothing appended.
C16_AsStated ==
    (/\ ret.op = "NewRequest"
     /\ ret.url = <<>>
     /\ ret.apiName \in DOMAIN apis
     /\ Buildable(apis[ret.apiName].Discoverer, ret.method, ret.url)) =>
        /\ req # NoReq
        /\ req.Request.URL = apis[ret.apiName].Discoverer

\* C16: NewRequest with an empty path on a registered API returns a request
\* exactly when the method is empty or a token and the base URL parses; the
\* URL of the request is the base URL without its trailing slashes followed by
\* one slash, which is the base URL itself only when that ends in exactly one
\* slash.
C16_EmptyPathURL ==
    (/\ ret.op = "NewRequest"
     /\ ret.url = <<>>
     /\ ret.apiName \in DOMAIN apis) =>
        LET b == apis[ret.apiName].Discoverer
        IN  /\ (req # NoReq) <=> Buildable(b, ret.method, ret.url)
            /\ req # NoReq =>
                 /\ \E k \in 0..Len(b) :
                        /\ k = 0 \/ b[k] # "/"
                        /\ \A i \in (k + 1)..Len(b) : b[i] = "/"
                        /\ req.Request.URL = SubSeq(b, 1, k) \o <<"/">>
                 /\ (req.Request.URL = b) <=>
                        /\ Len(b) >= 1
                        /\ b[Len(b)] = "/"
                        /\ Len(b) = 1 \/ b[Len(b) - 1] # "/"

\* a request for the empty path of a base URL without trailing slash: its URL
\* is the base URL and a slash
C16_Witness ==
    /\ ret.op = "NewRequest"
    /\ ret.url = <<>>
    /\ ret.apiName \in DOMAIN apis
    /\ apis[ret.apiName].Discoverer = <<"a">>
    /\ req # NoReq
    /\ req.Request.URL = <<"a", "/">>

----------------------------------------------------------------------------
(* SpecClients: NewClient and the ClientOptions, over the *http.Client values *)
(* of the process.  httpClients is the heap of *http.Client values: a         *)
(* sequence of records, the index being the identity of the value.            *)

\* http.DefaultClient, the one value of package net/http every Client starts with
DefaultClient == 1
\* an *http.Client the caller made to hand to WithClient
CallerClient == 2
\* the zero Timeout of an http.Client: no timeout
NoTimeout == 0
Timeouts == {100, 200}

\* WithClient(hc)(c): c.client = hc
WithClient(hc, c, heap) == [c |-> [c EXCEPT !.client = hc], heap |-> heap]

\* WithRetry()(c): c.client is a new *http.Client that retryablehttp makes
WithRetry(c, heap) ==
    [c |-> [c EXCEPT !.client = Len(heap) + 1],
     heap |-> Append(heap, [Timeout |-> NoTimeout])]

\* WithTimeout(t)(c): c.client.Timeout = t, an assignment through the pointer
WithTimeout(t, c, heap) ==
    [c |-> c, heap |-> [heap EXCEPT ![c.client].Timeout = t]]

\* a ClientOption is a record [kind, arg]
OptWithClient == [kind |-> "WithClient", arg |-> CallerClient]
OptWithRetry == [kind |-> "WithRetry", arg |-> NoTimeout]
OptWithTimeout(t) == [kind |-> "WithTimeout", arg |-> t]

ApplyClientOption(option, c, heap) ==
    CASE option.kind = "WithClient" -> WithClient(option.arg, c, heap)
      [] option.kind = "WithRetry" -> WithRetry(c, heap)
      [] option.kind = "WithTimeout" -> WithTimeout(option.arg, c, heap)

RECURSIVE ApplyClientOptions(_, _, _)
ApplyClientOptions(options, c, heap) ==
    IF options = <<>> THEN [c |-> c, heap |-> heap]
    ELSE LET r == ApplyClientOption(Head(options), c, heap)
         IN  ApplyClientOptions(Tail(options), r.c, r.heap)

\* the Client that NewClient(n, options...) returns and the heap it leaves
NewClientResult(n, options) ==
    ApplyClientOptions(options,
                       [name |-> n, client |-> DefaultClient, apis |-> <<>>],
                       httpClients)

NewClient(n, options) ==
    LET r == NewClientResult(n, options)
    IN  /\ clients' = Append(clients, r.c)
        /\ httpClients' = r.heap
        /\ name' = n
        /\ apis' = r.c.apis
        /\ ret' = [op |-> "NewClient", name |-> n, options |-> options]
        /\ UNCHANGED <<req, thrVars>>

ClientOptionLists ==
    {<<>>, <<OptWithClient>>, <<OptWithRetry>>} \cup
    {<<OptWithTimeout(t)>> : t \in Timeouts} \cup
    {<<OptWithClient, OptWithTimeout(t)>> : t \in Timeouts} \cup
    {<<OptWithRetry, OptWithTimeout(t)>> : t \in Timeouts} \cup
    {<<OptWithTimeout(t), OptWithRetry>> : t \in Timeouts}

\* the process before its first NewClient: http.DefaultClient and the
\* caller's *http.Client, neither with a timeout
InitClients ==
    /\ name = ""
    /\ apis = <<>>
    /\ req = NoReq
    /\ ret = [op |-> "start"]
    /\ pc = NoThreads
    /\ local = NoThreads
    /\ writers = {}
    /\ readers = {}
    /\ clients = NoClients
    /\ httpClients = <<[Timeout |-> NoTimeout], [Timeout |-> NoTimeout]>>

BuildClient ==
    /\ Len(clients) < MaxClients
    /\ \E n \in ClientNames, o \in ClientOptionLists : NewClient(n, o)

NextClients == BuildClient

SpecClients == InitClients /\ [][NextClients]_vars

----------------------------------------------------------------------------
(* Properties of the transports of the Clients (SpecClients) *)

\* C17: no step changes the timeout of the *http.Client of a Client that was
\* built before it, whatever Client the step builds and with whatever options.
C17_TimeoutFixedAtConstruction ==
    [][\A i \in 1..Len(clients) :
           httpClients'[clients[i].client].Timeout =
               httpClients[clients[i].client].Timeout]_vars

====
